---- MODULE Spec2Model ----
(***************************************************************************)
(* Timeline consolidation of the AI News Orchestrator                      *)
(* (src/timeline_generator.py): collect, merge by date, sort, annotate     *)
(* milestones.  Python str values are TLA+ strings; a JSON value of the    *)
(* analysis payload is a tagged record [t, v] so that a value that is not  *)
(* a string (number, null, list) can sit where the code expects a string.  *)
(***************************************************************************)
EXTENDS Integers, Sequences, FiniteSets, TLC

VARIABLES analysis, articles, pc, collected, timeline_events,
          llm, event_query, subject, credibility, extracted, now, stats

\* the LLM collaborator of AIAnalyzer and the query of analyze_event
analyzerVars == <<llm, event_query>>

\* the article given to score_article or to _extract_dates, what they
\* return, and the clock of the extraction run
articleVars == <<subject, credibility, extracted, now>>

vars ==
    <<analysis, articles, pc, collected, timeline_events, analyzerVars, articleVars, stats>>

\* get_timeline_stats has not been called
NoStats == [called |-> FALSE]

\* no analyzer, scorer or extractor takes part
NoLlm == [provider |-> "none"]

AnalyzerIdle == llm = NoLlm /\ event_query = ""

ArticleIdle ==
    /\ subject = [title |-> ""]
    /\ credibility = [title |-> ""]
    /\ extracted = <<>>
    /\ now = <<1, 1, 1, 0>>

(***************************************************************************)
(* Bounds of the model.                                                    *)
(***************************************************************************)
MaxEntries == 2
MaxArticles == 2
MaxRaw == 4

(***************************************************************************)
(* Python values.                                                          *)
(***************************************************************************)
Str(s) == [t |-> "str", v |-> s]
Num(n) == [t |-> "num", v |-> n]
Null == [t |-> "null", v |-> 0]
List(xs) == [t |-> "list", v |-> xs]

IsStr(x) == x.t = "str"
\* dict keys must be hashable: str, int and None are, a list is not
Hashable(x) == x.t # "list"

SeqsUpTo(S, n) == UNION {[1..k -> S] : k \in 0..n}

(***************************************************************************)
(* str helpers: s[:n], str.lower(), `sub in s`, sep.join(parts).           *)
(***************************************************************************)
Min(a, b) == IF a <= b THEN a ELSE b

Prefix(s, n) == SubSeq(s, 1, Min(n, Len(s)))

CharAt(s, i) == SubSeq(s, i, i)

LowerChar(c) ==
    CASE c = "A" -> "a" [] c = "B" -> "b" [] c = "C" -> "c" [] c = "D" -> "d"
      [] c = "E" -> "e" [] c = "F" -> "f" [] c = "G" -> "g" [] c = "H" -> "h"
      [] c = "I" -> "i" [] c = "J" -> "j" [] c = "K" -> "k" [] c = "L" -> "l"
      [] c = "M" -> "m" [] c = "N" -> "n" [] c = "O" -> "o" [] c = "P" -> "p"
      [] c = "Q" -> "q" [] c = "R" -> "r" [] c = "S" -> "s" [] c = "T" -> "t"
      [] c = "U" -> "u" [] c = "V" -> "v" [] c = "W" -> "w" [] c = "X" -> "x"
      [] c = "Y" -> "y" [] c = "Z" -> "z" [] OTHER -> c

RECURSIVE Lower(_)
Lower(s) == IF s = "" THEN "" ELSE LowerChar(Head(s)) \o Lower(Tail(s))

Contains(s, sub) ==
    \E i \in 1..(Len(s) - Len(sub) + 1) : SubSeq(s, i, i + Len(sub) - 1) = sub

RECURSIVE Join(_, _)
Join(sep, parts) ==
    IF parts = <<>> THEN ""
    ELSE IF Len(parts) = 1 THEN parts[1]
    ELSE parts[1] \o sep \o Join(sep, Tail(parts))

(***************************************************************************)
(* datetime.strptime(date_str, "%Y-%m-%d") and datetime.min.  A datetime   *)
(* is the triple <<year, month, day>>; DateKey orders triples as dates.    *)
(***************************************************************************)
Digits == {"0", "1", "2", "3", "4", "5", "6", "7", "8", "9"}

DigitVal(c) ==
    CASE c = "0" -> 0 [] c = "1" -> 1 [] c = "2" -> 2 [] c = "3" -> 3
      [] c = "4" -> 4 [] c = "5" -> 5 [] c = "6" -> 6 [] c = "7" -> 7
      [] c = "8" -> 8 [] c = "9" -> 9

AllDigits(s) == \A i \in 1..Len(s) : CharAt(s, i) \in Digits

RECURSIVE NumVal(_)
NumVal(s) ==
    IF s = "" THEN 0
    ELSE 10 * NumVal(SubSeq(s, 1, Len(s) - 1)) + DigitVal(CharAt(s, Len(s)))

\* %Y is \d\d\d\d
MatchesYear(s) == Len(s) = 4 /\ AllDigits(s)

\* %m is 1[0-2]|0[1-9]|[1-9]
MatchesMonth(s) ==
    /\ Len(s) \in {1, 2}
    /\ AllDigits(s)
    /\ NumVal(s) \in 1..12

\* %d is 3[01]|[12]\d|0[1-9]|[1-9]| [1-9]
MatchesDay(s) ==
    \/ Len(s) \in {1, 2} /\ AllDigits(s) /\ NumVal(s) \in 1..31
    \/ Len(s) = 2 /\ CharAt(s, 1) = " " /\ CharAt(s, 2) \in Digits \ {"0"}

DayVal(s) == IF CharAt(s, 1) = " " THEN NumVal(Tail(s)) ELSE NumVal(s)

IsLeap(y) == y % 4 = 0 /\ (y % 100 # 0 \/ y % 400 = 0)

DaysInMonth(y, m) ==
    IF m = 2 THEN (IF IsLeap(y) THEN 29 ELSE 28)
    ELSE IF m \in {4, 6, 9, 11} THEN 30 ELSE 31

DashPositions(s) == {i \in 1..Len(s) : CharAt(s, i) = "-"}

datetime_min == <<1, 1, 1>>

NoDate == <<0, 0, 0>>

\* the datetime strptime returns, NoDate where it raises ValueError
strptime(s) ==
    LET dashes == DashPositions(s) IN
    IF Cardinality(dashes) # 2 THEN NoDate
    ELSE
        LET p1 == CHOOSE i \in dashes : \A j \in dashes : i <= j
            p2 == CHOOSE i \in dashes : \A j \in dashes : j <= i
            ys == SubSeq(s, 1, p1 - 1)
            ms == SubSeq(s, p1 + 1, p2 - 1)
            ds == SubSeq(s, p2 + 1, Len(s))
        IN  IF ~(MatchesYear(ys) /\ MatchesMonth(ms) /\ MatchesDay(ds))
            THEN NoDate
            ELSE
                LET y == NumVal(ys)
                    m == NumVal(ms)
                    d == DayVal(ds)
                IN  IF y >= 1 /\ d <= DaysInMonth(y, m) THEN <<y, m, d>>
                    ELSE NoDate

DateKey(dt) == dt[1] * 10000 + dt[2] * 100 + dt[3]

\* variant: a date that does not parse sorts last
parse_date_max(date) ==
    IF IsStr(date) /\ strptime(date.v) # NoDate THEN strptime(date.v)
    ELSE <<9999, 12, 31>>

\* parse_date of _sort_timeline: any exception gives datetime.min
parse_date(date) ==
    IF IsStr(date) /\ strptime(date.v) # NoDate THEN strptime(date.v)
    ELSE datetime_min

(***************************************************************************)
(* dict helpers.  A dict is a function on its keys.                        *)
(***************************************************************************)
Get(d, key, default) == IF key \in DOMAIN d THEN d[key] ELSE default

SetKey(d, key, val) ==
    [k \in DOMAIN d \cup {key} |-> IF k = key THEN val ELSE d[k]]

Returned(val) == [raised |-> FALSE, value |-> val]

Raised == [raised |-> TRUE, value |-> <<>>]

(***************************************************************************)
(* generate_timeline, lines 27-50: collect the entries.                    *)
(***************************************************************************)
TitleLimit == 80

\* variant: the entries of the analysis are tagged "analysis"
RECURSIVE AnalysisEventsRelabelled(_)
AnalysisEventsRelabelled(entries) ==
    IF entries = <<>> THEN <<>>
    ELSE
        LET event == Head(entries) IN
        (IF "date" \in DOMAIN event /\ "event" \in DOMAIN event
         THEN <<[date |-> event["date"], event |-> event["event"],
                 source |-> "analysis"]>>
         ELSE <<>>) \o AnalysisEventsRelabelled(Tail(entries))

RECURSIVE AnalysisEvents(_)
AnalysisEvents(entries) ==
    IF entries = <<>> THEN <<>>
    ELSE
        LET event == Head(entries) IN
        (IF "date" \in DOMAIN event /\ "event" \in DOMAIN event
         THEN <<[date |-> event["date"], event |-> event["event"],
                 source |-> "ai_analysis"]>>
         ELSE <<>>) \o AnalysisEvents(Tail(entries))

\* variant: the date is added without looking for it among the collected entries
RECURSIVE ArticleDatesUnchecked(_, _, _)
ArticleDatesUnchecked(events, article, dates) ==
    IF dates = <<>> THEN events
    ELSE ArticleDatesUnchecked(
            Append(events,
                [date |-> Str(Head(dates)["date"]),
                 event |-> Str("News coverage: "
                               \o Prefix(Get(article, "title", ""), TitleLimit)),
                 source |-> Get(article, "source", "Unknown")]),
            article, Tail(dates))

RECURSIVE ArticleDates(_, _, _)
ArticleDates(events, article, dates) ==
    IF dates = <<>> THEN events
    ELSE
        LET date_str == Head(dates)["date"]
            added ==
                IF ~(\E i \in DOMAIN events : events[i]["date"] = Str(date_str))
                THEN Append(events,
                        [date |-> Str(date_str),
                         event |-> Str("News coverage: "
                                       \o Prefix(Get(article, "title", ""), TitleLimit)),
                         source |-> Get(article, "source", "Unknown")])
                ELSE events
        IN  ArticleDates(added, article, Tail(dates))

\* variant: the articles are walked from the last to the first
RECURSIVE ArticleEventsReversed(_, _)
ArticleEventsReversed(events, arts) ==
    IF arts = <<>> THEN events
    ELSE ArticleEventsReversed(
            ArticleDates(events, arts[Len(arts)],
                         Get(arts[Len(arts)], "extracted_dates", <<>>)),
            SubSeq(arts, 1, Len(arts) - 1))

RECURSIVE ArticleEvents(_, _)
ArticleEvents(events, arts) ==
    IF arts = <<>> THEN events
    ELSE ArticleEvents(
            ArticleDates(events, Head(arts), Get(Head(arts), "extracted_dates", <<>>)),
            Tail(arts))

\* variant: the pass over the articles is left out
CollectEventsAnalysisOnly(an, arts) ==
    IF "timeline" \notin DOMAIN an THEN Returned(<<>>)
    ELSE IF an["timeline"].t # "list" THEN Raised
    ELSE Returned(AnalysisEvents(an["timeline"].v))

\* iterating a timeline value that is not a list raises TypeError
CollectEvents(an, arts) ==
    IF "timeline" \notin DOMAIN an THEN Returned(ArticleEvents(<<>>, arts))
    ELSE IF an["timeline"].t # "list" THEN Raised
    ELSE Returned(ArticleEvents(AnalysisEvents(an["timeline"].v), arts))

(***************************************************************************)
(* _merge_duplicate_dates.                                                 *)
(***************************************************************************)
MergeLimit == 3

Perms(S) ==
    {f \in [1..Cardinality(S) -> S] : \A i, j \in DOMAIN f : i # j => f[i] # f[j]}

\* variant: one key per event instead of one per distinct date
GroupKeysPerEvent(events) == [i \in DOMAIN events |-> events[i]["date"]]

\* the keys of date_groups in insertion order
RECURSIVE GroupKeys(_)
GroupKeys(events) ==
    IF events = <<>> THEN <<>>
    ELSE
        LET front == GroupKeys(SubSeq(events, 1, Len(events) - 1))
            date == events[Len(events)]["date"]
        IN  IF \E i \in DOMAIN front : front[i] = date THEN front
            ELSE Append(front, date)

Group(events, date) == SelectSeq(events, LAMBDA e : e["date"] = date)

GroupSources(events, date) ==
    {Get(Group(events, date)[i], "source", "Unknown") :
        i \in DOMAIN Group(events, date)}

MergedDates(events) ==
    {events[i]["date"] : i \in DOMAIN events} \ 
        {d \in {events[i]["date"] : i \in DOMAIN events} : Len(Group(events, d)) = 1}

\* list(set(...)) of line 77 may list the sources of a group in any order
SourceOrders(events) ==
    {ord \in [MergedDates(events) ->
                UNION {Perms(GroupSources(events, d)) : d \in MergedDates(events)}] :
        \A d \in MergedDates(events) : ord[d] \in Perms(GroupSources(events, d))}

\* variant: the merged event keeps one source label only
MergeGroupFirstSource(date, date_events, sources) ==
    IF Len(date_events) = 1 THEN date_events[1]
    ELSE
        LET event_descriptions == [i \in DOMAIN date_events |-> date_events[i]["event"].v]
        IN  [date |-> date,
             event |-> Str(Join(" | ", Prefix(event_descriptions, MergeLimit))),
             source |-> sources[1],
             event_count |-> Len(date_events)]

MergeGroup(date, date_events, sources) ==
    IF Len(date_events) = 1 THEN date_events[1]
    ELSE
        LET event_descriptions == [i \in DOMAIN date_events |-> date_events[i]["event"].v]
        IN  [date |-> date,
             event |-> Str(Join(" | ", Prefix(event_descriptions, MergeLimit))),
             source |-> Join(", ", Prefix(sources, MergeLimit)),
             event_count |-> Len(date_events)]

\* " | ".join raises TypeError on a description that is not a str
JoinRaises(date_events) ==
    /\ Len(date_events) > 1
    /\ \E i \in 1..Min(MergeLimit, Len(date_events)) : ~IsStr(date_events[i]["event"])

\* variant: the count of a merged event stops at the limit of the descriptions
_merge_duplicate_dates_count_capped(events, ord) ==
    IF \E i \in DOMAIN events : ~Hashable(events[i]["date"]) THEN Raised
    ELSE IF \E d \in MergedDates(events) : JoinRaises(Group(events, d)) THEN Raised
    ELSE
        LET keys == GroupKeys(events) IN
        Returned([k \in DOMAIN keys |->
                    IF Len(Group(events, keys[k])) = 1 THEN Group(events, keys[k])[1]
                    ELSE SetKey(MergeGroup(keys[k], Group(events, keys[k]), ord[keys[k]]),
                                "event_count",
                                Min(MergeLimit, Len(Group(events, keys[k])))) ])

_merge_duplicate_dates(events, ord) ==
    IF \E i \in DOMAIN events : ~Hashable(events[i]["date"]) THEN Raised
    ELSE IF \E d \in MergedDates(events) : JoinRaises(Group(events, d)) THEN Raised
    ELSE
        LET keys == GroupKeys(events) IN
        Returned([k \in DOMAIN keys |->
                    MergeGroup(keys[k], Group(events, keys[k]),
                               IF keys[k] \in DOMAIN ord THEN ord[keys[k]] ELSE <<>>)])

(***************************************************************************)
(* _sort_timeline: sorted() is stable, the key is parse_date(x["date"]).   *)
(***************************************************************************)
SortKey(event) == DateKey(parse_date(event["date"]))

\* variant: descending order
InsertByKeyDescending(sorted, x) ==
    LET n == Cardinality({i \in DOMAIN sorted :
                            DateKey(parse_date(sorted[i]["date"]))
                                >= DateKey(parse_date(x["date"]))})
    IN  SubSeq(sorted, 1, n) \o <<x>> \o SubSeq(sorted, n + 1, Len(sorted))

\* x goes after every element whose key is not greater than its own
InsertByKey(sorted, x) ==
    LET n == Cardinality({i \in DOMAIN sorted : SortKey(sorted[i]) <= SortKey(x)})
    IN  SubSeq(sorted, 1, n) \o <<x>> \o SubSeq(sorted, n + 1, Len(sorted))

\* variant: an event whose date does not parse is left out
RECURSIVE _sort_timeline_parseable_only(_)
_sort_timeline_parseable_only(events) ==
    IF events = <<>> THEN <<>>
    ELSE
        LET rest == _sort_timeline_parseable_only(SubSeq(events, 1, Len(events) - 1))
            x == events[Len(events)]
        IN  IF IsStr(x["date"]) /\ strptime(x["date"].v) # NoDate
            THEN InsertByKey(rest, x) ELSE rest

RECURSIVE _sort_timeline(_)
_sort_timeline(events) ==
    IF events = <<>> THEN <<>>
    ELSE InsertByKey(_sort_timeline(SubSeq(events, 1, Len(events) - 1)),
                     events[Len(events)])

(***************************************************************************)
(* _identify_milestones.                                                   *)
(***************************************************************************)
FewEvents == 3

milestone_keywords ==
    <<"launch", "announced", "completed", "achieved", "landed", "successful",
      "failed", "breakthrough", "discovery", "summit", "signed", "released">>

\* variant: the description is searched as written
HasKeywordCaseSensitive(text) ==
    \E k \in DOMAIN milestone_keywords : Contains(text, milestone_keywords[k])

HasKeyword(text) ==
    LET event_lower == Lower(text)
    IN  \E k \in DOMAIN milestone_keywords : Contains(event_lower, milestone_keywords[k])

\* variant: the keyword rule is applied whatever the number of events
_identify_milestones_always_keywords(events) ==
    IF \E i \in 2..(Len(events) - 1) : ~IsStr(events[i]["event"]) THEN Raised
    ELSE Returned([i \in DOMAIN events |->
                    SetKey(events[i], "is_milestone",
                           \/ i = 1
                           \/ i = Len(events)
                           \/ HasKeyword(events[i]["event"].v))])

\* event["event"].lower() raises AttributeError on a value that is not a str
_identify_milestones(events) ==
    IF Len(events) <= FewEvents
    THEN Returned([i \in DOMAIN events |-> SetKey(events[i], "is_milestone", TRUE)])
    ELSE IF \E i \in 2..(Len(events) - 1) : ~IsStr(events[i]["event"]) THEN Raised
    ELSE Returned([i \in DOMAIN events |->
                    SetKey(events[i], "is_milestone",
                           \/ i = 1
                           \/ i = Len(events)
                           \/ HasKeyword(events[i]["event"].v))])

(***************************************************************************)
(* Inputs.  Entries of the analysis timeline as an LLM may return them,    *)
(* and processed articles as process_article leaves them (extracted_dates  *)
(* holds YYYY-MM-DD strings in ascending order, the publication date and a *)
(* date of the text may be the same day).                                  *)
(***************************************************************************)
LongTitle ==
    "Agency confirms the long awaited deep space observatory images will now be released today"

EntryPool ==
    {[date |-> Str("2024-02-10"), event |-> Str("Summit signed")],
     [date |-> Str("soon"), event |-> Str("LAUNCH Announced")],
     [date |-> Str("0001-01-01"), event |-> Str("Founding")],
     [date |-> Str("2024-1-5"), event |-> Str("Crew rests"), note |-> Str("extra")],
     [date |-> Str("2024-01-05")],
     [event |-> Str("Undated remark")],
     [date |-> Num(2024), event |-> Str("Budget vote")]}

\* with entries whose date or event is a JSON value the code has no branch for
PayloadPool ==
    EntryPool \cup
    {[date |-> Str("2024-02-10"), event |-> Str("Talks resume")],
     [date |-> Str("2024-03-05"), event |-> Null],
     [date |-> Str("2024-02-10"), event |-> Num(7)],
     [date |-> List(<<>>), event |-> Str("Listed")]}

ArticlePool ==
    {[title |-> "Rocket launch delayed", source |-> "BBC News",
      extracted_dates |-> <<[date |-> "2024-02-10"], [date |-> "2024-03-05"]>>],
     [title |-> LongTitle, source |-> "Reuters",
      extracted_dates |-> <<[date |-> "2024-01-20"], [date |-> "2024-03-05"]>>],
     [title |-> "Crew returns home", source |-> "My Cool Blog",
      extracted_dates |-> <<[date |-> "2023-12-31"], [date |-> "2023-12-31"]>>]}

\* parsed JSON objects: keys may be missing or extra, the timeline null
Analyses(pool) ==
    {[summary |-> "none"], [timeline |-> Null, summary |-> "none"]}
    \cup {[timeline |-> List(es)] : es \in SeqsUpTo(pool, MaxEntries)}
    \cup {[timeline |-> List(<<e>>), summary |-> "text", mood |-> "extra"] : e \in pool}

RawPool ==
    {[date |-> Str("2024-03-05"), event |-> Str("Deal signed"), source |-> "BBC News"],
     [date |-> Str("2024-03-05"), event |-> Str("Deal confirmed"), source |-> "Reuters"],
     [date |-> Str("2024-03-05"), event |-> Str("Markets react"), source |-> "BBC News"],
     [date |-> Str("2024-03-05"), event |-> Str("Unions respond")],
     [date |-> Str("2024-03-05"), event |-> Str("Talks resume"), source |-> "CNN"],
     [date |-> Str("2024-03-06"), event |-> Str("Aftermath"), source |-> "CNN"]}

(***************************************************************************)
(* generate_timeline(analysis, articles), one action per step of its body. *)
(***************************************************************************)
Init ==
    /\ analysis \in Analyses(EntryPool)
    /\ articles \in SeqsUpTo(ArticlePool, MaxArticles)
    /\ pc = "start"
    /\ collected = <<>>
    /\ timeline_events = <<>>
    /\ AnalyzerIdle
    /\ stats = NoStats
    /\ ArticleIdle

\* lines 27-50
Collect ==
    /\ pc = "start"
    /\ LET r == CollectEvents(analysis, articles) IN
        /\ pc' = IF r.raised THEN "raised" ELSE "collected"
        /\ collected' = r.value
        /\ timeline_events' = r.value
    /\ UNCHANGED <<analysis, articles, analyzerVars, articleVars, stats>>

\* line 53
MergeDuplicateDates ==
    /\ pc = "collected"
    /\ \E ord \in SourceOrders(timeline_events) :
        LET r == _merge_duplicate_dates(timeline_events, ord) IN
        /\ pc' = IF r.raised THEN "raised" ELSE "merged"
        /\ timeline_events' = r.value
    /\ UNCHANGED <<analysis, articles, collected, analyzerVars, articleVars, stats>>

\* line 56
SortTimeline ==
    /\ pc = "merged"
    /\ timeline_events' = _sort_timeline(timeline_events)
    /\ pc' = "sorted"
    /\ UNCHANGED <<analysis, articles, collected, analyzerVars, articleVars, stats>>

\* lines 59-61
IdentifyMilestones ==
    /\ pc = "sorted"
    /\ LET r == _identify_milestones(timeline_events) IN
        /\ pc' = IF r.raised THEN "raised" ELSE "done"
        /\ timeline_events' = r.value
    /\ UNCHANGED <<analysis, articles, collected, analyzerVars, articleVars, stats>>

Next == Collect \/ MergeDuplicateDates \/ SortTimeline \/ IdentifyMilestones

Spec == Init /\ [][Next]_vars

(***************************************************************************)
(* _merge_duplicate_dates called on a list of events of its own.           *)
(***************************************************************************)
InitMerge ==
    /\ analysis = [summary |-> "none"]
    /\ articles = <<>>
    /\ pc = "collected"
    /\ collected \in SeqsUpTo(RawPool, MaxRaw)
    /\ timeline_events = collected
    /\ AnalyzerIdle
    /\ stats = NoStats
    /\ ArticleIdle

NextMerge == MergeDuplicateDates

SpecMerge == InitMerge /\ [][NextMerge]_vars

(***************************************************************************)
(* generate_timeline on payloads that also hold values of other JSON types.*)
(***************************************************************************)
InitPayload ==
    /\ analysis \in Analyses(PayloadPool)
    /\ articles \in SeqsUpTo(ArticlePool, MaxArticles)
    /\ pc = "start"
    /\ collected = <<>>
    /\ timeline_events = <<>>
    /\ AnalyzerIdle
    /\ stats = NoStats
    /\ ArticleIdle

SpecPayload == InitPayload /\ [][Next]_vars

(***************************************************************************)
(* Vocabulary of the properties.                                           *)
(***************************************************************************)
EventDate(i) == timeline_events[i]["date"]

\* the entries of analysis["timeline"], none when the key is missing
AnalysisEntries ==
    IF "timeline" \in DOMAIN analysis /\ analysis["timeline"].t = "list"
    THEN analysis["timeline"].v
    ELSE <<>>

Mentions(a, d) ==
    \E k \in DOMAIN articles[a]["extracted_dates"] :
        articles[a]["extracted_dates"][k]["date"] = d

MentionedDates ==
    UNION {{articles[a]["extracted_dates"][k]["date"] :
                k \in DOMAIN articles[a]["extracted_dates"]} : a \in DOMAIN articles}

CollectedWith(date) == {k \in DOMAIN collected : collected[k]["date"] = date}

\* a zero-padded YYYY-MM-DD string that names a day of the calendar
ValidIsoDate(s) ==
    /\ Len(s) = 10
    /\ CharAt(s, 5) = "-" /\ CharAt(s, 8) = "-"
    /\ \A i \in {1, 2, 3, 4, 6, 7, 9, 10} : CharAt(s, i) \in Digits
    /\ NumVal(SubSeq(s, 1, 4)) >= 1
    /\ NumVal(SubSeq(s, 6, 7)) \in 1..12
    /\ NumVal(SubSeq(s, 9, 10)) \in
        1..DaysInMonth(NumVal(SubSeq(s, 1, 4)), NumVal(SubSeq(s, 6, 7)))

EarlierIso(a, b) ==
    LET ya == NumVal(SubSeq(a, 1, 4))  yb == NumVal(SubSeq(b, 1, 4))
        ma == NumVal(SubSeq(a, 6, 7))  mb == NumVal(SubSeq(b, 6, 7))
        da == NumVal(SubSeq(a, 9, 10)) db == NumVal(SubSeq(b, 9, 10))
    IN  \/ ya < yb
        \/ ya = yb /\ ma < mb
        \/ ya = yb /\ ma = mb /\ da < db

ValidDated(i) == IsStr(EventDate(i)) /\ ValidIsoDate(EventDate(i).v)

Unparseable(date) == ~IsStr(date) \/ strptime(date.v) = NoDate

TwelveKeywords ==
    {"launch", "announced", "completed", "achieved", "landed", "successful",
     "failed", "breakthrough", "discovery", "summit", "signed", "released"}

\* kw stands in text at position i, letter case apart
StandsAt(text, i, kw) ==
    \A k \in 1..Len(kw) : LowerChar(CharAt(text, i + k - 1)) = CharAt(kw, k)

MentionsKeyword(text) ==
    \E kw \in TwelveKeywords :
        \E i \in 1..(Len(text) - Len(kw) + 1) : StandsAt(text, i, kw)

Interior(i) == i \in 2..(Len(timeline_events) - 1)

(***************************************************************************)
(* Properties of generate_timeline.                                        *)
(***************************************************************************)

\* C1: once the merge step has run, and so in the returned timeline, no two
\* events carry the same date and every collected date has exactly one event.
C1_OneEventPerDate ==
    pc \in {"merged", "sorted", "done"} =>
        /\ \A i, j \in DOMAIN timeline_events : i # j => EventDate(i) # EventDate(j)
        /\ \A k \in DOMAIN collected :
            Cardinality({i \in DOMAIN timeline_events :
                            EventDate(i) = collected[k]["date"]}) = 1

C1_Witness ==
    /\ pc = "done"
    /\ Len(timeline_events) >= 2
    /\ \E a, b \in DOMAIN collected : a # b /\ collected[a]["date"] = collected[b]["date"]

\* C2: in the returned timeline an event with a valid YYYY-MM-DD date comes
\* before every event with a later valid YYYY-MM-DD date.
C2_ChronologicalOrder ==
    pc = "done" =>
        \A i, j \in DOMAIN timeline_events :
            (ValidDated(i) /\ ValidDated(j) /\ EarlierIso(EventDate(i).v, EventDate(j).v))
                => i < j

\* the two dates were collected in the opposite order
C2_Witness ==
    /\ pc = "done"
    /\ \E a, b \in DOMAIN collected :
        /\ a < b
        /\ IsStr(collected[a]["date"]) /\ ValidIsoDate(collected[a]["date"].v)
        /\ IsStr(collected[b]["date"]) /\ ValidIsoDate(collected[b]["date"].v)
        /\ EarlierIso(collected[b]["date"].v, collected[a]["date"].v)

\* C3: a date carried by an analysis entry (with date and event) and also
\* mentioned by an article gives one event whose source is "ai_analysis" and
\* whose description holds no "News coverage: " text.
C3_Shared(n) ==
    LET e == AnalysisEntries[n] IN
    /\ "date" \in DOMAIN e /\ "event" \in DOMAIN e
    /\ IsStr(e["date"])
    /\ e["date"].v \in MentionedDates

C3_AnalysisWins ==
    pc = "done" =>
        \A n \in DOMAIN AnalysisEntries :
            C3_Shared(n) =>
                /\ \E i \in DOMAIN timeline_events : EventDate(i) = AnalysisEntries[n]["date"]
                /\ \A i \in DOMAIN timeline_events :
                    EventDate(i) = AnalysisEntries[n]["date"] =>
                        /\ timeline_events[i]["source"] = "ai_analysis"
                        /\ IsStr(timeline_events[i]["event"]) =>
                            ~Contains(timeline_events[i]["event"].v, "News coverage: ")

C3_Witness == pc = "done" /\ \E n \in DOMAIN AnalysisEntries : C3_Shared(n)

\* C4: a date that no analysis entry carries gets the event synthesized from
\* the first article, in input order, that mentions it: "News coverage: "
\* and the first 80 characters of its title, with that article's source.
C4_Carried(d) ==
    \E n \in DOMAIN AnalysisEntries :
        "date" \in DOMAIN AnalysisEntries[n] /\ AnalysisEntries[n]["date"] = Str(d)

C4_First(d) ==
    CHOOSE a \in DOMAIN articles :
        Mentions(a, d) /\ \A b \in DOMAIN articles : Mentions(b, d) => a <= b

C4_FirstArticleWins ==
    pc = "done" =>
        \A d \in MentionedDates :
            ~C4_Carried(d) =>
                \E i \in DOMAIN timeline_events :
                    /\ EventDate(i) = Str(d)
                    /\ timeline_events[i]["event"] =
                        Str("News coverage: " \o Prefix(articles[C4_First(d)]["title"], 80))
                    /\ timeline_events[i]["source"] = articles[C4_First(d)]["source"]
                    /\ "event_count" \notin DOMAIN timeline_events[i]

\* two articles with different titles and sources mention the date
C4_Witness ==
    /\ pc = "done"
    /\ \E d \in MentionedDates :
        /\ ~C4_Carried(d)
        /\ \E a, b \in DOMAIN articles :
            /\ a < b /\ Mentions(a, d) /\ Mentions(b, d)
            /\ articles[a]["title"] # articles[b]["title"]
            /\ articles[a]["source"] # articles[b]["source"]

\* C5: in a returned timeline of at most 3 events every event is a milestone.
C5_FewAllMilestones ==
    (pc = "done" /\ Len(timeline_events) <= 3) =>
        \A i \in DOMAIN timeline_events :
            /\ "is_milestone" \in DOMAIN timeline_events[i]
            /\ timeline_events[i]["is_milestone"] = TRUE

\* three events, the middle one without any keyword
C5_Witness ==
    /\ pc = "done"
    /\ Len(timeline_events) = 3
    /\ IsStr(timeline_events[2]["event"])
    /\ ~MentionsKeyword(timeline_events[2]["event"].v)

\* C6: in a returned timeline of more than 3 events every event has the
\* flag, and it is true exactly for the first event, the last event and the
\* events whose description holds one of the twelve keywords in any case.
C6_MilestoneRule ==
    (pc = "done" /\ Len(timeline_events) > 3) =>
        \A i \in DOMAIN timeline_events :
            /\ "is_milestone" \in DOMAIN timeline_events[i]
            /\ timeline_events[i]["is_milestone"] =
                (\/ i = 1
                 \/ i = Len(timeline_events)
                 \/ MentionsKeyword(timeline_events[i]["event"].v))

C6_Witness ==
    /\ pc = "done"
    /\ Len(timeline_events) > 3
    /\ \E i, j \in DOMAIN timeline_events :
        /\ Interior(i) /\ Interior(j)
        /\ timeline_events[i]["is_milestone"]
        /\ ~timeline_events[j]["is_milestone"]

\* C7: when exactly two collected entries share a date and their source
\* labels differ, the merge step yields one event for the date, with
\* event_count 2 and both source names joined by ", ".
C7_Pair(a, b) ==
    /\ a < b
    /\ collected[a]["date"] = collected[b]["date"]
    /\ Get(collected[a], "source", "Unknown") # Get(collected[b], "source", "Unknown")
    /\ CollectedWith(collected[a]["date"]) = {a, b}

C7_TwoSourcesMerged ==
    pc = "merged" =>
        \A a, b \in DOMAIN collected :
            C7_Pair(a, b) =>
                LET sa == Get(collected[a], "source", "Unknown")
                    sb == Get(collected[b], "source", "Unknown")
                    at == {i \in DOMAIN timeline_events : EventDate(i) = collected[a]["date"]}
                IN  /\ Cardinality(at) = 1
                    /\ \A i \in at :
                        /\ "event_count" \in DOMAIN timeline_events[i]
                        /\ timeline_events[i]["event_count"] = 2
                        /\ timeline_events[i]["source"] \in
                            {sa \o ", " \o sb, sb \o ", " \o sa}

C7_Witness ==
    /\ pc = "merged"
    /\ \E a, b \in DOMAIN collected : C7_Pair(a, b)

\* C8: every event of the returned timeline has an event_count, an integer
\* >= 1 equal to the number of collected entries with its date.
C8_EveryEventCounted ==
    pc = "done" =>
        \A i \in DOMAIN timeline_events :
            /\ "event_count" \in DOMAIN timeline_events[i]
            /\ timeline_events[i]["event_count"] >= 1
            /\ timeline_events[i]["event_count"] = Cardinality(CollectedWith(EventDate(i)))

\* C9 as stated: sorting does not raise, and in the returned timeline every
\* event whose date does not parse precedes every event whose date parses.
C9_UnparseableFirst ==
    pc = "done" =>
        \A i, j \in DOMAIN timeline_events :
            (Unparseable(EventDate(i)) /\ ~Unparseable(EventDate(j))) => i < j

\* C9 amended: the sort step always ends without raising, and in its result
\* every event whose date does not parse precedes every event whose date
\* parses to a day after 0001-01-01 (an event dated 0001-01-01 ties with it).
C9_UnparseableBeforeLater ==
    [][pc = "merged" =>
        /\ pc' = "sorted"
        /\ \A i, j \in DOMAIN timeline_events' :
            (/\ Unparseable(timeline_events'[i]["date"])
             /\ ~Unparseable(timeline_events'[j]["date"])
             /\ strptime(timeline_events'[j]["date"].v) # datetime_min) => i < j]_vars

\* a date that does not parse was collected after one that parses
C9_Witness ==
    /\ pc = "sorted"
    /\ \E a, b \in DOMAIN collected :
        /\ a < b
        /\ ~Unparseable(collected[a]["date"])
        /\ strptime(collected[a]["date"].v) # datetime_min
        /\ Unparseable(collected[b]["date"])

\* C10: generate_timeline does not raise, whatever the parsed JSON object.
C10_NeverRaises == pc # "raised"

(***************************************************************************)
(* AIAnalyzer.  The LLM collaborator is the record llm: the configured     *)
(* provider, the two API keys, and what a call to the provider does        *)
(* (outcome): it throws, it answers with no content, or it answers with a  *)
(* text.                                                                   *)
(***************************************************************************)
SummaryLimit == 10

ContentLimit == 2000

HighlightLimit == 5

FallbackTitleLimit == 100

\* article_summaries of analyze_event: extracted_dates becomes a list of str
ArticleSummaries(arts) ==
    [i \in 1..Min(Len(arts), SummaryLimit) |->
        [index |-> i,
         title |-> Get(arts[i], "title", ""),
         source |-> Get(arts[i], "source", ""),
         published_date |-> Get(arts[i], "publishedAt", ""),
         content |-> Prefix(Get(arts[i], "cleaned_content", ""), ContentLimit),
         extracted_dates |->
            [k \in DOMAIN Get(arts[i], "extracted_dates", <<>>) |->
                arts[i]["extracted_dates"][k]["date"]]]]

\* ord() of the characters a strftime("%Y-%m-%d") string is made of
Ord(c) == IF c = "-" THEN 45 ELSE 48 + DigitVal(c)

\* a < b for str
RECURSIVE StrLess(_, _)
StrLess(a, b) ==
    IF b = "" THEN FALSE
    ELSE IF a = "" THEN TRUE
    ELSE IF Head(a) = Head(b) THEN StrLess(Tail(a), Tail(b))
    ELSE Ord(CharAt(a, 1)) < Ord(CharAt(b, 1))

\* the date strings of one summary that all_dates does not hold yet, in order
RECURSIVE NewDates(_, _)
NewDates(seen, date_strs) ==
    IF date_strs = <<>> THEN <<>>
    ELSE
        LET date_str == Head(date_strs) IN
        IF date_str # "" /\ date_str \notin seen
        THEN <<date_str>> \o NewDates(seen \cup {date_str}, Tail(date_strs))
        ELSE NewDates(seen, Tail(date_strs))

FallbackEntry(article, date_str) ==
    [date |-> Str(date_str),
     event |-> Str("News reported by " \o Get(article, "source", "Unknown") \o ": "
                   \o Prefix(Get(article, "title", ""), FallbackTitleLimit))]

\* lines 198-214: the loop over the articles, all_dates is seen
RECURSIVE WalkArticles(_, _, _)
WalkArticles(events, seen, arts) ==
    IF arts = <<>> THEN events
    ELSE
        LET article == Head(arts)
            fresh == NewDates(seen, Get(article, "extracted_dates", <<>>))
        IN  WalkArticles(
                events \o [k \in DOMAIN fresh |-> FallbackEntry(article, fresh[k])],
                seen \cup {fresh[k] : k \in DOMAIN fresh},
                Tail(arts))

\* variant: an entry goes after the entries of a later or equal date
RECURSIVE InsertByDateDescending(_, _)
InsertByDateDescending(sorted, x) ==
    IF sorted = <<>> THEN <<x>>
    ELSE IF StrLess(Head(sorted)["date"].v, x["date"].v)
         THEN <<x>> \o sorted
         ELSE <<Head(sorted)>> \o InsertByDateDescending(Tail(sorted), x)

\* list.sort(key=lambda x: x["date"]) is stable: x goes after the entries of
\* an earlier or equal date string
RECURSIVE InsertByDate(_, _)
InsertByDate(sorted, x) ==
    IF sorted = <<>> THEN <<x>>
    ELSE IF StrLess(x["date"].v, Head(sorted)["date"].v)
         THEN <<x>> \o sorted
         ELSE <<Head(sorted)>> \o InsertByDate(Tail(sorted), x)

RECURSIVE SortByDate(_)
SortByDate(events) ==
    IF events = <<>> THEN <<>>
    ELSE InsertByDate(SortByDate(SubSeq(events, 1, Len(events) - 1)),
                      events[Len(events)])

\* the sources line 221 joins, a set
KeySources(arts) ==
    {Get(arts[i], "source", "Unknown") : i \in 1..Min(Len(arts), HighlightLimit)}

\* ord is the order in which the set of line 221 is iterated
_basic_analysis(query, arts, ord) ==
    [timeline |-> List(SortByDate(WalkArticles(<<>>, {}, arts))),
     summary |-> "Analysis of " \o ToString(Len(arts)) \o " articles about '"
                 \o query \o "'. Key sources include: " \o Join(", ", ord) \o ".",
     key_highlights |->
        [i \in 1..Min(Len(arts), HighlightLimit) |-> Get(arts[i], "title", "")],
     discrepancies |-> <<>>,
     verified_facts |-> <<>>]

\* re.search(r'\{.*\}', text, re.DOTALL): from the first "{" to the last "}"
Braces(text, c) == {i \in 1..Len(text) : CharAt(text, i) = c}

Least(S) == CHOOSE i \in S : \A j \in S : i <= j

Greatest(S) == CHOOSE i \in S : \A j \in S : j <= i

HasMatch(text) ==
    /\ Braces(text, "{") # {}
    /\ \E j \in Braces(text, "}") : j > Least(Braces(text, "{"))

MatchGroup(text) ==
    SubSeq(text, Least(Braces(text, "{")), Greatest(Braces(text, "}")))

\* responses of the provider
JsonFull ==
    "{\"timeline\": [{\"date\": \"2024-02-10\", \"event\": \"Summit signed\"}], \"summary\": \"ok\"}"

JsonInProse == "Sure! Here it is: {\"timeline\": []} Hope this helps."

JsonNullTimeline == "{\"timeline\": null}"

NoJson == "I cannot help with that."

JsonCutOff == "{\"timeline\": [{\"date\": \"2024-02-10\", \"event\": \"Summit si"

JsonBroken == "{\"timeline\": [}"

JsonTwice == "{\"summary\": \"a\"} or {\"summary\": \"b\"}"

ResponsePool ==
    {JsonFull, JsonInProse, JsonNullTimeline, NoJson, JsonCutOff, JsonBroken, JsonTwice}

\* json.loads on the match groups of the ResponsePool texts: the object, or
\* JSONDecodeError
json_loads(s) ==
    IF s = JsonFull
    THEN Returned([timeline |-> List(<<[date |-> Str("2024-02-10"),
                                        event |-> Str("Summit signed")]>>),
                   summary |-> "ok"])
    ELSE IF s = "{\"timeline\": []}" THEN Returned([timeline |-> List(<<>>)])
    ELSE IF s = JsonNullTimeline THEN Returned([timeline |-> Null])
    ELSE Raised

Throws == [kind |-> "throws", text |-> ""]

NoContent == [kind |-> "none", text |-> ""]

Answers(text) == [kind |-> "text", text |-> text]

Outcomes == {Throws, NoContent} \cup {Answers(text) : text \in ResponsePool}

\* variant: json.loads runs outside the try block
_analyze_with_openai_uncaught(outcome, fallback) ==
    IF outcome.kind # "text" THEN Returned(fallback)
    ELSE IF HasMatch(outcome.text) THEN json_loads(MatchGroup(outcome.text))
    ELSE Returned(fallback)

\* the whole body is inside try: the client call that throws, re.search on
\* a content of None and json.loads on a match that is not JSON all end
\* in the except branch
_analyze_with_openai(outcome, fallback) ==
    IF outcome.kind # "text" THEN Returned(fallback)
    ELSE IF HasMatch(outcome.text)
         THEN IF json_loads(MatchGroup(outcome.text)).raised
              THEN Returned(fallback)
              ELSE json_loads(MatchGroup(outcome.text))
         ELSE Returned(fallback)

_analyze_with_gemini(outcome, fallback) ==
    IF outcome.kind # "text" THEN Returned(fallback)
    ELSE IF HasMatch(outcome.text)
         THEN IF json_loads(MatchGroup(outcome.text)).raised
              THEN Returned(fallback)
              ELSE json_loads(MatchGroup(outcome.text))
         ELSE Returned(fallback)

\* a key that is the empty string is falsy
_call_llm_for_analysis(l, fallback) ==
    IF l.provider = "openai" /\ l.openai_key # ""
    THEN _analyze_with_openai(l.outcome, fallback)
    ELSE IF l.provider = "gemini" /\ l.gemini_key # ""
    THEN _analyze_with_gemini(l.outcome, fallback)
    ELSE Returned(fallback)

analyze_event(l, arts, query, ord) ==
    _call_llm_for_analysis(l, _basic_analysis(query, ArticleSummaries(arts), ord))

(***************************************************************************)
(* Inputs of the analyzer: the configurations of config.py, and article    *)
(* lists up to one article past the limit of analyze_event (the slider of  *)
(* app.py allows 20 articles).                                             *)
(***************************************************************************)
Llms ==
    [provider : {"openai", "gemini", "claude"},
     openai_key : {"", "sk-test"},
     gemini_key : {"", "g-test"},
     outcome : Outcomes]

Briefing ==
    [title |-> "Morning briefing", source |-> "AP News",
     extracted_dates |-> <<[date |-> "2024-01-20"]>>]

Briefings(n) == [i \in 1..n |-> Briefing]

ArticleLists ==
    SeqsUpTo(ArticlePool, MaxArticles)
    \cup {<<Briefing>>}
    \cup {Briefings(n) \o <<a>> : n \in {SummaryLimit - 1, SummaryLimit}, a \in ArticlePool}

(***************************************************************************)
(* app.py lines 198-202: analyze_event, then generate_timeline on its      *)
(* result and the same articles.                                           *)
(***************************************************************************)
InitAnalyze ==
    /\ llm \in Llms
    /\ event_query = "moon mission"
    /\ articles \in ArticleLists
    /\ analysis = <<>>
    /\ pc = "analyze"
    /\ collected = <<>>
    /\ timeline_events = <<>>
    /\ ArticleIdle
    /\ stats = NoStats

AnalyzeEvent ==
    /\ pc = "analyze"
    /\ \E ord \in Perms(KeySources(ArticleSummaries(articles))) :
        LET r == analyze_event(llm, articles, event_query, ord) IN
        /\ pc' = IF r.raised THEN "raised" ELSE "start"
        /\ analysis' = r.value
    /\ UNCHANGED <<articles, collected, timeline_events, analyzerVars, articleVars, stats>>

NextAnalyze == AnalyzeEvent \/ Next

SpecAnalyze == InitAnalyze /\ [][NextAnalyze]_vars

(***************************************************************************)
(* Properties of analyze_event and of the fallback analysis.               *)
(***************************************************************************)
FallbackKeys ==
    {"timeline", "summary", "key_highlights", "discrepancies", "verified_facts"}

\* no response of the ResponsePool is an object with the key key_highlights
FallbackUsed == "key_highlights" \in DOMAIN analysis

FallbackShape(an) ==
    /\ DOMAIN an = FallbackKeys
    /\ an["timeline"].t = "list"
    /\ an["discrepancies"] = <<>>
    /\ an["verified_facts"] = <<>>

NoKeyForProvider ==
    \/ llm.provider = "openai" /\ llm.openai_key = ""
    \/ llm.provider = "gemini" /\ llm.gemini_key = ""

NoParseableJson ==
    llm.outcome.kind = "text" /\ llm.outcome.text \in {NoJson, JsonCutOff, JsonBroken}

LlmCalled ==
    \/ llm.provider = "openai" /\ llm.openai_key # ""
    \/ llm.provider = "gemini" /\ llm.gemini_key # ""

\* C11: analyze_event returns (it does not raise) whatever the configuration
\* and whatever the provider does, and when the selected provider has no
\* key, when the call throws or when the response holds no parseable JSON
\* object, what it returns is the fallback analysis with its five keys.
C11_NeverRaisesFallback ==
    [][pc = "analyze" =>
        /\ pc' = "start"
        /\ (NoKeyForProvider \/ llm.outcome = Throws \/ NoParseableJson)
            => FallbackShape(analysis')]_vars

\* the provider was called and answered with a JSON text that does not parse
C11_Witness ==
    /\ pc = "start"
    /\ LlmCalled
    /\ llm.outcome = Answers(JsonBroken)
    /\ FallbackShape(analysis)

\* the first n of the supplied articles, all of them when there are fewer
FirstArticles(n) == 1..Min(Len(articles), n)

DatesOf(A) ==
    UNION {{articles[a]["extracted_dates"][k]["date"] :
                k \in DOMAIN articles[a]["extracted_dates"]} : a \in A}

FirstMention(A, d) == Least({a \in A : Mentions(a, d)})

ReportedBy(a) ==
    Str("News reported by " \o articles[a]["source"] \o ": "
        \o Prefix(articles[a]["title"], 100))

\* the timeline of the analysis has one entry per date the articles A
\* mention, worded after the first of them that mentions it, dates ascending
TimelineOf(A) ==
    LET tl == analysis["timeline"].v IN
    /\ \A d \in DatesOf(A) :
        Cardinality({k \in DOMAIN tl : tl[k]["date"] = Str(d)}) = 1
    /\ \A k \in DOMAIN tl :
        /\ tl[k]["date"].v \in DatesOf(A)
        /\ tl[k]["event"] = ReportedBy(FirstMention(A, tl[k]["date"].v))
    /\ \A j, k \in DOMAIN tl :
        j < k => EarlierIso(tl[j]["date"].v, tl[k]["date"].v)

\* C12 as stated: the fallback timeline covers every supplied article.
C12_EveryArticleWalked == FallbackUsed => TimelineOf(DOMAIN articles)

\* C12: the fallback timeline has exactly one entry for every distinct date
\* string mentioned by the first 10 supplied articles, the entry's text
\* comes from the first of them that mentions the date, and the entries are
\* in ascending date order; an article after the tenth is not walked.
C12_FirstTenWalked == FallbackUsed => TimelineOf(FirstArticles(10))

\* eleven articles, the eleventh alone mentions one of its dates
C12_Witness ==
    /\ FallbackUsed
    /\ Len(articles) = 11
    /\ DatesOf({11}) \ DatesOf(1..10) # {}
    /\ Len(analysis["timeline"].v) = 1

\* C13: when the analysis is the fallback result, generate_timeline does
\* not raise and the returned timeline has exactly one event per distinct
\* extracted date of all the articles; one article with one extracted date
\* gives exactly 1 event, with is_milestone true.
C13_FallbackPath ==
    FallbackUsed =>
        /\ pc # "raised"
        /\ pc = "done" =>
            /\ \A d \in DatesOf(DOMAIN articles) :
                Cardinality({i \in DOMAIN timeline_events : EventDate(i) = Str(d)}) = 1
            /\ \A i \in DOMAIN timeline_events :
                EventDate(i).v \in DatesOf(DOMAIN articles)
            /\ (Len(articles) = 1 /\ Len(articles[1]["extracted_dates"]) = 1) =>
                /\ Len(timeline_events) = 1
                /\ timeline_events[1]["is_milestone"] = TRUE

\* a single article with a single extracted date, through to the end
C13_Witness ==
    /\ FallbackUsed
    /\ pc = "done"
    /\ Len(articles) = 1
    /\ Len(articles[1]["extracted_dates"]) = 1
    /\ Len(timeline_events) = 1

(***************************************************************************)
(* CredibilityScorer.score_source.                                         *)
(***************************************************************************)
REPUTABLE_SOURCES ==
    <<"bbc", "reuters", "ap news", "associated press", "the new york times",
      "the washington post", "the guardian", "cnn", "npr", "pbs", "al jazeera",
      "bloomberg", "wall street journal", "forbes", "time", "newsweek">>

reputable_sources == [i \in DOMAIN REPUTABLE_SOURCES |-> Lower(REPUTABLE_SOURCES[i])]

\* any(word in s for word in words)
AnyIn(words, s) == \E i \in DOMAIN words : Contains(s, words[i])

HighlyReputable == <<"bbc", "reuters", "associated press", "ap news", "the new york times">>

NewsPatterns == <<"news", "times", "post", "tribune">>

BlogPatterns == <<"blog", "medium", "substack">>

HighScore == 95

KnownScore == 88

NewsScore == 70

BlogScore == 40

UnknownScore == 55

Reason(base_score) ==
    IF base_score = HighScore THEN "Highly reputable news source"
    ELSE IF base_score = KnownScore THEN "Known reputable news source"
    ELSE IF base_score = NewsScore THEN "Appears to be a news organization"
    ELSE IF base_score = BlogScore THEN "Blog or independent publication"
    ELSE "Unknown source"

\* variant: the top tier scores the full 100
BaseScoreTopFull(is_reputable, source_lower) ==
    IF is_reputable
    THEN IF AnyIn(HighlyReputable, source_lower) THEN 100 ELSE KnownScore
    ELSE IF AnyIn(NewsPatterns, source_lower) THEN NewsScore
    ELSE IF AnyIn(BlogPatterns, source_lower) THEN BlogScore
    ELSE UnknownScore

BaseScore(is_reputable, source_lower) ==
    IF is_reputable
    THEN IF AnyIn(HighlyReputable, source_lower) THEN HighScore ELSE KnownScore
    ELSE IF AnyIn(NewsPatterns, source_lower) THEN NewsScore
    ELSE IF AnyIn(BlogPatterns, source_lower) THEN BlogScore
    ELSE UnknownScore

\* variant: the name patterns are looked at before the reputable list
score_source_patterns_first(source_name) ==
    LET source_lower == Lower(source_name)
        is_reputable == AnyIn(reputable_sources, source_lower)
    IN  [score |-> IF AnyIn(NewsPatterns, source_lower) THEN NewsScore
                   ELSE IF AnyIn(BlogPatterns, source_lower) THEN BlogScore
                   ELSE IF ~is_reputable THEN UnknownScore
                   ELSE IF AnyIn(HighlyReputable, source_lower) THEN HighScore
                   ELSE KnownScore,
         is_reputable |-> is_reputable,
         reason |-> "",
         source_name |-> source_name]

score_source(source_name) ==
    LET source_lower == Lower(source_name)
        is_reputable == AnyIn(reputable_sources, source_lower)
    IN  [score |-> BaseScore(is_reputable, source_lower),
         is_reputable |-> is_reputable,
         reason |-> Reason(BaseScore(is_reputable, source_lower)),
         source_name |-> source_name]

(***************************************************************************)
(* AIAnalyzer.detect_bias.                                                 *)
(***************************************************************************)
BiasContentLimit == 1000

PhraseWeight == 10

ExclamationLimit == 3

ExclamationWeight == 5

ClickbaitThreshold == 15

BiasCap == 100

clickbait_words == <<"shocking", "amazing", "you won't believe", "secret", "exposed">>

\* s.count(c) for a single character c
Count(s, c) == Cardinality({i \in 1..Len(s) : CharAt(s, i) = c})

\* variant: the loop stops at the first word it finds
WordsInFirstHit(text) ==
    LET all == SelectSeq(clickbait_words, LAMBDA word : Contains(text, word))
    IN  IF all = <<>> THEN <<>> ELSE <<all[1]>>

\* the clickbait words found in text, in the order of the list
WordsIn(text) == SelectSeq(clickbait_words, LAMBDA word : Contains(text, word))

\* variant: a score of 15 is clickbait already
IsClickbaitFromThreshold(score) == score >= ClickbaitThreshold

\* line 259
IsClickbait(score) == score > ClickbaitThreshold

\* variant: the title is searched as written, not lower-cased
detect_bias_case_sensitive(article) ==
    LET title == Get(article, "title", "")
        content == Prefix(Get(article, "cleaned_content", ""), BiasContentLimit)
        exclamation_count == Count(title, "!") + Count(content, "!")
        found == WordsIn(title)
        score == PhraseWeight * Len(found)
                 + (IF exclamation_count > ExclamationLimit THEN ExclamationWeight ELSE 0)
    IN  [bias_score |-> Min(score, BiasCap),
         flags |-> [k \in DOMAIN found |->
                        "Clickbait language detected: '" \o found[k] \o "'"]
                   \o (IF exclamation_count > ExclamationLimit
                       THEN <<"Excessive exclamation marks">> ELSE <<>>),
         is_clickbait |-> score > ClickbaitThreshold]

\* the words are looked for in title_lower only; content is used for the
\* count of exclamation marks
detect_bias(article) ==
    LET title == Get(article, "title", "")
        content == Prefix(Get(article, "cleaned_content", ""), BiasContentLimit)
        exclamation_count == Count(title, "!") + Count(content, "!")
        title_lower == Lower(title)
        found == WordsIn(title_lower)
        score == PhraseWeight * Len(found)
                 + (IF exclamation_count > ExclamationLimit THEN ExclamationWeight ELSE 0)
    IN  [bias_score |-> Min(score, BiasCap),
         flags |-> [k \in DOMAIN found |->
                        "Clickbait language detected: '" \o found[k] \o "'"]
                   \o (IF exclamation_count > ExclamationLimit
                       THEN <<"Excessive exclamation marks">> ELSE <<>>),
         is_clickbait |-> IsClickbait(score)]

(***************************************************************************)
(* CredibilityScorer.score_article.  The scores are integers; for the      *)
(* source scores of score_source and the bias scores of detect_bias the    *)
(* float expression int(source_score * 0.7 + content_quality * 0.3)        *)
(* is the integer quotient below (int() truncates, and the sum is never    *)
(* negative).                                                              *)
(***************************************************************************)
ClickbaitPenalty == 20

ScoreCap == 100

Max(a, b) == IF a >= b THEN a ELSE b

\* variant: the weighted sum rounded half up
WeightedRounded(source_score, content_quality) ==
    (7 * source_score + 3 * content_quality + 5) \div 10

\* line 81
Weighted(source_score, content_quality) ==
    (7 * source_score + 3 * content_quality) \div 10

\* variant: the two scores are added without weights and without the cap
score_article_unweighted(article) ==
    LET source_score_data == score_source(Get(article, "source", "Unknown"))
        bias_data == detect_bias(article)
        content_quality == Max(0, 100 - bias_data.bias_score)
        blended == source_score_data.score + content_quality
    IN  [overall_score |-> IF bias_data.is_clickbait
                           THEN Max(0, blended - ClickbaitPenalty) ELSE blended,
         source_score |-> source_score_data.score,
         content_score |-> content_quality,
         bias_score |-> bias_data.bias_score,
         is_clickbait |-> bias_data.is_clickbait,
         flags |-> bias_data.flags,
         source_details |-> source_score_data]

score_article(article) ==
    LET source_score_data == score_source(Get(article, "source", "Unknown"))
        source_score == source_score_data.score
        bias_data == detect_bias(article)
        bias_score == bias_data.bias_score
        content_quality == Max(0, 100 - bias_score)
        blended == Weighted(source_score, content_quality)
        adjusted == IF bias_data.is_clickbait
                    THEN Max(0, blended - ClickbaitPenalty) ELSE blended
    IN  [overall_score |-> Min(ScoreCap, adjusted),
         source_score |-> source_score,
         content_score |-> content_quality,
         bias_score |-> bias_score,
         is_clickbait |-> bias_data.is_clickbait,
         flags |-> bias_data.flags,
         source_details |-> source_score_data]

(***************************************************************************)
(* Inputs of the scorer: source names of every tier and of two tiers at    *)
(* once, titles and cleaned contents with clickbait words and exclamation  *)
(* marks, one content longer than the part detect_bias looks at.           *)
(***************************************************************************)
SourceNames ==
    {"BBC News", "My Cool Blog", "The Guardian", "Daily Tribune", "Local Gazette",
     "Newsweek", "Cheap News", "Medium Post", "Reuters Blog", "Sunday Times",
     "Local News", "Times of India", "The Times"}

Titles ==
    {"Rocket launch delayed",
     "SHOCKING secret exposed!!!!!",
     "Amazing find!!!",
     "Amazing!!!!",
     "Secret exposed",
     "SHOCKING Secret",
     "Shocking: amazing secret exposed, you won't believe it!!!!"}

RECURSIVE Repeat(_, _)
Repeat(s, n) == IF n = 0 THEN "" ELSE s \o Repeat(s, n - 1)

\* 1000 characters without a mark, then four marks
LongContent == Repeat("calm words", 100) \o "!!!!"

Contents ==
    {"",
     "Officials confirmed the schedule.",
     "A shocking turn!",
     LongContent}

(***************************************************************************)
(* score_article on one article.                                           *)
(***************************************************************************)
InitScore ==
    /\ subject \in [title : Titles, source : SourceNames, cleaned_content : Contents]
    /\ credibility = [title |-> ""]
    /\ extracted = <<>>
    /\ now = <<1, 1, 1, 0>>
    /\ pc = "score"
    /\ analysis = <<>>
    /\ articles = <<>>
    /\ collected = <<>>
    /\ timeline_events = <<>>
    /\ AnalyzerIdle
    /\ stats = NoStats

ScoreArticle ==
    /\ pc = "score"
    /\ credibility' = score_article(subject)
    /\ pc' = "scored"
    /\ UNCHANGED <<analysis, articles, collected, timeline_events, analyzerVars,
                   subject, extracted, now, stats>>

NextScore == ScoreArticle

SpecScore == InitScore /\ [][NextScore]_vars

(***************************************************************************)
(* Properties of the scorer.                                               *)
(***************************************************************************)
\* w stands somewhere in text, letter case apart
Holds(text, w) == \E i \in 1..(Len(text) - Len(w) + 1) : StandsAt(text, i, w)

Marks(text) == Cardinality({i \in 1..Len(text) : CharAt(text, i) = "!"})

\* source_score x 0.7 + content_score x 0.3, in tenths
Tenths(c) == 7 * c.source_score + 3 * c.content_score

\* C14: the overall_score score_article returns lies in [0,100], with and
\* without the clickbait penalty.
C14_OverallInRange ==
    pc = "scored" => credibility.overall_score \in 0..100

\* the lowest source score with the highest bias score, penalty applied
C14_Witness ==
    /\ pc = "scored"
    /\ credibility.is_clickbait
    /\ credibility.source_score = 40
    /\ credibility.bias_score = 55

\* the overall score before the penalty: no score falls below 20 before it
PrePenalty(c) == IF c.is_clickbait THEN c.overall_score + 20 ELSE c.overall_score

\* C15 as stated: the overall score before the penalty is the weighted sum
\* rounded to the nearest integer: it is no more than a half away from it.
C15_RoundedToNearest ==
    pc = "scored" =>
        /\ 10 * PrePenalty(credibility) - Tenths(credibility) <= 5
        /\ Tenths(credibility) - 10 * PrePenalty(credibility) <= 5

\* C15: the overall score before the penalty is the weighted sum
\* sourceScore x 0.7 + (100 - biasScore) x 0.3 with its fraction cut off
\* (source 88 with bias 0 gives 91).
C15_Truncated ==
    pc = "scored" =>
        /\ credibility.content_score = 100 - credibility.bias_score
        /\ 10 * PrePenalty(credibility) <= Tenths(credibility)
        /\ Tenths(credibility) < 10 * PrePenalty(credibility) + 10

\* 88 x 0.7 + 100 x 0.3 = 91.6
C15_Witness ==
    /\ pc = "scored"
    /\ credibility.source_score = 88
    /\ credibility.bias_score = 0
    /\ credibility.overall_score = 91

TopTier == {"bbc", "reuters", "associated press", "ap news", "the new york times"}

OtherReputable ==
    {"the washington post", "the guardian", "cnn", "npr", "pbs", "al jazeera",
     "bloomberg", "wall street journal", "forbes", "time", "newsweek"}

Tier(name) ==
    IF \E w \in TopTier : Holds(name, w) THEN 95
    ELSE IF \E w \in OtherReputable : Holds(name, w) THEN 88
    ELSE IF \E w \in {"news", "times", "post", "tribune"} : Holds(name, w) THEN 70
    ELSE IF \E w \in {"blog", "medium", "substack"} : Holds(name, w) THEN 40
    ELSE 55

\* C16: the score of score_source is 95 for a name with a top-tier outlet
\* in it, else 88 with another reputable entry, else 70 with
\* news/times/post/tribune, else 40 with blog/medium/substack, else 55,
\* letter case apart; is_reputable is true exactly for 95 and 88.
C16_TieredScore ==
    pc = "scored" =>
        LET d == credibility.source_details IN
        /\ d.score = Tier(subject.source)
        /\ d.is_reputable = (d.score \in {95, 88})
        /\ subject.source = "BBC News" => d.score = 95 /\ d.is_reputable
        /\ subject.source = "My Cool Blog" => d.score = 40 /\ ~d.is_reputable

\* a name with a reputable entry and a news pattern in it
C16_Witness ==
    /\ pc = "scored"
    /\ subject.source = "Newsweek"
    /\ credibility.source_details.score = 88
    /\ credibility.source_details.is_reputable

Phrases == {"shocking", "amazing", "you won't believe", "secret", "exposed"}

\* C17 as stated: 10 and one flag for every phrase in the title or in the
\* first 1000 characters of the content, 5 and one flag for more than 3
\* exclamation marks in title and content together.
C17_TitleOrContent ==
    pc = "scored" =>
        LET seen == Prefix(subject.cleaned_content, 1000)
            hits == Cardinality({p \in Phrases :
                        Holds(subject.title, p) \/ Holds(seen, p)})
            many == Marks(subject.title) + Marks(seen) > 3
        IN  /\ credibility.bias_score = 10 * hits + (IF many THEN 5 ELSE 0)
            /\ Len(credibility.flags) = hits + (IF many THEN 1 ELSE 0)

\* C17: detect_bias adds 10 to the bias score and records one flag for
\* every clickbait phrase that occurs in the title, letter case apart (the
\* content is not searched for phrases), and adds 5 and one flag when the
\* title and the first 1000 characters of the content together hold more
\* than 3 exclamation marks; exactly 3 adds nothing.
C17_TitleOnly ==
    pc = "scored" =>
        LET seen == Prefix(subject.cleaned_content, 1000)
            hits == Cardinality({p \in Phrases : Holds(subject.title, p)})
            many == Marks(subject.title) + Marks(seen) > 3
        IN  /\ credibility.bias_score = 10 * hits + (IF many THEN 5 ELSE 0)
            /\ Len(credibility.flags) = hits + (IF many THEN 1 ELSE 0)

\* one phrase in the title, another in the content only, 3 + 1 marks
C17_Witness ==
    /\ pc = "scored"
    /\ subject.title = "Amazing find!!!"
    /\ subject.cleaned_content = "A shocking turn!"
    /\ credibility.bias_score = 15
    /\ Len(credibility.flags) = 2

\* C18: a title with 3 clickbait phrases and 5 exclamation marks gives a
\* bias score of at least 35 and is_clickbait true; whenever is_clickbait is
\* true the overall score is the score before the penalty minus 20, never
\* below 0.
C18_ClickbaitPenalty ==
    pc = "scored" =>
        /\ (/\ Cardinality({p \in Phrases : Holds(subject.title, p)}) = 3
            /\ Marks(subject.title) = 5)
            => credibility.bias_score >= 35 /\ credibility.is_clickbait
        /\ credibility.is_clickbait =>
            credibility.overall_score =
                Max(0, (Tenths(credibility) \div 10) - 20)

\* 95 x 0.7 + 65 x 0.3 = 86, minus 20
C18_Witness ==
    /\ pc = "scored"
    /\ subject.title = "SHOCKING secret exposed!!!!!"
    /\ subject.source = "BBC News"
    /\ credibility.bias_score = 35
    /\ credibility.is_clickbait
    /\ credibility.overall_score = 66

(***************************************************************************)
(* ArticleProcessor._extract_dates(text, published_date).  A naive         *)
(* datetime is the tuple <<year, month, day, hour>>.  re and dateparser    *)
(* are libraries: the text is given by the matches the loops visit, in the *)
(* order they visit them (pattern by pattern in matches, then the          *)
(* natural-language pattern in natural), each with the string handed to    *)
(* dateparser.parse, the context kept for it, and what the parse gives:    *)
(* nothing, an exception, or a datetime that may carry a time zone.  The   *)
(* readings of datetime.now() within one run are one instant, now.         *)
(***************************************************************************)
MaxMatches == 2

NoParse == [kind |-> "none", wall |-> <<1, 1, 1, 0>>, aware |-> FALSE]

ParseError == [kind |-> "error", wall |-> <<1, 1, 1, 0>>, aware |-> FALSE]

Naive(wall) == [kind |-> "dt", wall |-> wall, aware |-> FALSE]

Aware(wall) == [kind |-> "dt", wall |-> wall, aware |-> TRUE]

\* parsed.replace(tzinfo=None) keeps the wall-clock fields
replace_tzinfo(parsed) == parsed.wall

\* the order of naive datetimes
DtKey(dt) == ((dt[1] * 100 + dt[2]) * 100 + dt[3]) * 100 + dt[4]

\* n in decimal, zero-padded to width digits
RECURSIVE ZeroPad(_, _)
ZeroPad(n, width) ==
    IF Len(ToString(n)) >= width THEN ToString(n)
    ELSE "0" \o ZeroPad(n, width - 1)

\* dt.strftime("%Y-%m-%d"); the C library does not pad %Y
strftime(dt) == ToString(dt[1]) \o "-" \o ZeroPad(dt[2], 2) \o "-" \o ZeroPad(dt[3], 2)

\* lines 102-118: None and an exception both leave dates empty
MetadataDates(published, clock) ==
    IF published.raw = "" \/ published.parse.kind # "dt" THEN <<>>
    ELSE
        LET parsed == replace_tzinfo(published.parse) IN
        IF DtKey(parsed) <= DtKey(clock)
        THEN <<[date |-> strftime(parsed), datetime |-> parsed,
                context |-> "Article publication date", source |-> "metadata"]>>
        ELSE <<>>

Scan(dates, found_dates) == [dates |-> dates, found_dates |-> found_dates]

\* lines 136-156 and 171-186 for a match that parsed
Keep(scan, match, clock) ==
    LET parsed == replace_tzinfo(match.parse)
        date_key == strftime(parsed)
    IN  IF DtKey(parsed) > DtKey(clock) THEN scan
        ELSE IF date_key \in scan.found_dates THEN scan
        ELSE Scan(Append(scan.dates,
                         [date |-> date_key, datetime |-> parsed,
                          context |-> match.context, source |-> "text"]),
                  scan.found_dates \cup {date_key})

\* variant: a match in the future ends the loop
RECURSIVE ScanMatchesStopAtFuture(_, _, _)
ScanMatchesStopAtFuture(scan, matches, clock) ==
    IF matches = <<>> THEN scan
    ELSE IF Head(matches).parse.kind # "dt"
    THEN ScanMatchesStopAtFuture(scan, Tail(matches), clock)
    ELSE IF DtKey(replace_tzinfo(Head(matches).parse)) > DtKey(clock) THEN scan
    ELSE ScanMatchesStopAtFuture(Keep(scan, Head(matches), clock), Tail(matches), clock)

\* lines 130-158: the try is inside the loop, a match that does not parse
\* or raises is passed over
RECURSIVE ScanMatches(_, _, _)
ScanMatches(scan, matches, clock) ==
    IF matches = <<>> THEN scan
    ELSE IF Head(matches).parse.kind # "dt"
    THEN ScanMatches(scan, Tail(matches), clock)
    ELSE ScanMatches(Keep(scan, Head(matches), clock), Tail(matches), clock)

\* lines 161-188: the try is around the loop, an exception ends it
RECURSIVE ScanNatural(_, _, _)
ScanNatural(scan, natural, clock) ==
    IF natural = <<>> THEN scan
    ELSE IF Head(natural).parse.kind = "error" THEN scan
    ELSE IF Head(natural).parse.kind = "none"
    THEN ScanNatural(scan, Tail(natural), clock)
    ELSE ScanNatural(Keep(scan, Head(natural), clock), Tail(natural), clock)

\* list.sort(key=lambda x: x["datetime"]) is stable
RECURSIVE InsertByDatetime(_, _)
InsertByDatetime(sorted, x) ==
    IF sorted = <<>> THEN <<x>>
    ELSE IF DtKey(x.datetime) < DtKey(Head(sorted).datetime)
         THEN <<x>> \o sorted
         ELSE <<Head(sorted)>> \o InsertByDatetime(Tail(sorted), x)

RECURSIVE SortByDatetime(_)
SortByDatetime(dates) ==
    IF dates = <<>> THEN <<>>
    ELSE InsertByDatetime(SortByDatetime(SubSeq(dates, 1, Len(dates) - 1)),
                          dates[Len(dates)])

_extract_dates(text, published, clock) ==
    LET first == ScanMatches(Scan(MetadataDates(published, clock), {}),
                             text.matches, clock)
        dates == ScanNatural(first, text.natural, clock).dates
        valid_dates == SelectSeq(dates, LAMBDA d : DtKey(d.datetime) <= DtKey(clock))
    IN  SortByDatetime(valid_dates)

(***************************************************************************)
(* Inputs of the extractor: publication-date strings as the news APIs      *)
(* give them, and matches of the date patterns, some of the same day,      *)
(* some after the clock of the run.                                        *)
(***************************************************************************)
Clocks == {<<2024, 3, 1, 12>>, <<2024, 1, 1, 9>>}

PublishedPool ==
    {[raw |-> "", parse |-> NoParse],
     [raw |-> "2024-01-01T10:00:00Z", parse |-> Aware(<<2024, 1, 1, 10>>)],
     [raw |-> "2023-12-31T23:30:00+05:30", parse |-> Aware(<<2023, 12, 31, 23>>)],
     [raw |-> "recently", parse |-> NoParse],
     [raw |-> "2024-13-45T99:00:00Z", parse |-> ParseError]}

Match(raw, context, parse) == [raw |-> raw, context |-> context, parse |-> parse]

MatchPool ==
    {Match("2024-01-01", "signed on 2024-01-01 in Geneva", Naive(<<2024, 1, 1, 0>>)),
     Match("January 1, 2024", "since January 1, 2024 the", Naive(<<2024, 1, 1, 0>>)),
     Match("12/31/2023", "dated 12/31/2023", Naive(<<2023, 12, 31, 0>>)),
     Match("2031-05-01", "due 2031-05-01", Naive(<<2031, 5, 1, 0>>)),
     Match("99/99/9999", "ref 99/99/9999", NoParse),
     Match("31-12-00", "lot 31-12-00", ParseError)}

NaturalPool ==
    {Match("February 2, 2024", "on February 2, 2024", Naive(<<2024, 2, 2, 0>>)),
     Match("March 3, 2030", "by March 3, 2030", Naive(<<2030, 3, 3, 0>>)),
     Match("Sol 12, 4000", "in Sol 12, 4000", ParseError)}

NaturalLists ==
    {<<>>} \cup {<<a>> : a \in NaturalPool} \cup {<<a, b>> : a, b \in NaturalPool}

Texts == [matches : SeqsUpTo(MatchPool, MaxMatches), natural : NaturalLists]

InitExtract ==
    /\ subject \in [text : Texts, published : PublishedPool]
    /\ now \in Clocks
    /\ extracted = <<>>
    /\ credibility = [title |-> ""]
    /\ pc = "extract"
    /\ analysis = <<>>
    /\ articles = <<>>
    /\ collected = <<>>
    /\ timeline_events = <<>>
    /\ AnalyzerIdle
    /\ stats = NoStats

ExtractDates ==
    /\ pc = "extract"
    /\ extracted' = _extract_dates(subject.text, subject.published, now)
    /\ pc' = "extracted"
    /\ UNCHANGED <<analysis, articles, collected, timeline_events, analyzerVars,
                   subject, credibility, now, stats>>

NextExtract == ExtractDates

SpecExtract == InitExtract /\ [][NextExtract]_vars

(***************************************************************************)
(* Properties of _extract_dates.                                           *)
(***************************************************************************)
Later(a, b) == DtKey(a) > DtKey(b)

SameDay(a, b) == a[1] = b[1] /\ a[2] = b[2] /\ a[3] = b[3]

\* C19 as stated: no two returned mentions share a date, the metadata
\* mention included, and the mentions are in non-decreasing date order.
C19_DedupAscending ==
    pc = "extracted" =>
        \A i, j \in DOMAIN extracted :
            i < j => /\ extracted[i].date # extracted[j].date
                     /\ ~Later(extracted[i].datetime, extracted[j].datetime)

\* a parsed candidate of the run that is not after the clock
Past(c) == c.parse.kind = "dt" /\ ~Later(c.parse.wall, now)

ReturnedFrom(c, source) ==
    \E k \in DOMAIN extracted :
        /\ extracted[k].source = source
        /\ SameDay(extracted[k].datetime, c.parse.wall)

\* C20: no returned mention, from the metadata or from the text, has a
\* datetime after the clock of the run; and every candidate that parses to
\* an instant not after the clock is returned (its day is, once), whatever
\* candidates in the future the run met before it -- short of a natural
\* language candidate that follows one whose parse raised.
C20_NoFutureMention ==
    pc = "extracted" =>
        /\ \A k \in DOMAIN extracted : ~Later(extracted[k].datetime, now)
        /\ (subject.published.raw # "" /\ Past(subject.published))
            => ReturnedFrom(subject.published, "metadata")
        /\ \A i \in DOMAIN subject.text.matches :
            Past(subject.text.matches[i])
                => ReturnedFrom(subject.text.matches[i], "text")
        /\ \A i \in DOMAIN subject.text.natural :
            (/\ Past(subject.text.natural[i])
             /\ \A h \in 1..(i - 1) : subject.text.natural[h].parse.kind # "error")
                => ReturnedFrom(subject.text.natural[i], "text")

\* a match in the future first, a match in the past after it, and a
\* publication date in the future
C20_Witness ==
    /\ pc = "extracted"
    /\ Len(subject.text.matches) = 2
    /\ subject.text.matches[1].parse.kind = "dt"
    /\ Later(subject.text.matches[1].parse.wall, now)
    /\ Past(subject.text.matches[2])
    /\ subject.published.parse.kind = "dt"
    /\ Later(subject.published.parse.wall, now)
    /\ Len(extracted) = 1

(***************************************************************************)
(* TimelineGenerator.get_timeline_stats, called by app.py on the timeline  *)
(* generate_timeline returned.                                             *)
(***************************************************************************)
\* days of the months before month m of year y
RECURSIVE DaysBeforeMonth(_, _)
DaysBeforeMonth(y, m) ==
    IF m = 1 THEN 0 ELSE DaysBeforeMonth(y, m - 1) + DaysInMonth(y, m - 1)

\* datetime.toordinal(): day 1 is 0001-01-01
toordinal(dt) ==
    LET y == dt[1] - 1 IN
    y * 365 + (y \div 4) - (y \div 100) + (y \div 400)
        + DaysBeforeMonth(dt[1], dt[2]) + dt[3]

\* the greatest and the least of a non-empty set of numbers
MaxOf(S) == CHOOSE x \in S : \A z \in S : z <= x

MinOf(S) == CHOOSE x \in S : \A z \in S : x <= z

\* line 147: strptime raises TypeError on a date that is not a str and
\* ValueError on a str that does not match the format
StrptimeRaises(event) ==
    "date" \in DOMAIN event
        /\ (~IsStr(event["date"]) \/ strptime(event["date"].v) = NoDate)

\* the record of an empty timeline has no duration_days
get_timeline_stats(timeline) ==
    IF timeline = <<>>
    THEN Returned([total_events |-> 0, date_range |-> "N/A", milestone_count |-> 0])
    ELSE IF \E i \in DOMAIN timeline : StrptimeRaises(timeline[i]) THEN Raised
    ELSE
        LET dates == [i \in DOMAIN timeline |-> strptime(timeline[i]["date"].v)]
            ords == {toordinal(dates[i]) : i \in DOMAIN dates}
        IN  Returned(
                [total_events |-> Len(timeline),
                 date_range |-> timeline[1]["date"].v \o " to "
                                \o timeline[Len(timeline)]["date"].v,
                 milestone_count |->
                    Cardinality({i \in DOMAIN timeline :
                                    Get(timeline[i], "is_milestone", FALSE)}),
                 duration_days |-> IF ords = {} THEN 0 ELSE MaxOf(ords) - MinOf(ords)])

\* app.py line 235
GetTimelineStats ==
    /\ pc = "done"
    /\ LET r == get_timeline_stats(timeline_events) IN
        /\ pc' = IF r.raised THEN "stats_raised" ELSE "stats"
        /\ stats' = IF r.raised THEN NoStats ELSE r.value
    /\ UNCHANGED <<analysis, articles, collected, timeline_events, analyzerVars,
                   articleVars>>

NextStats == Next \/ GetTimelineStats

SpecStats == Init /\ [][NextStats]_vars

(***************************************************************************)
(* Properties of get_timeline_stats.                                       *)
(***************************************************************************)
StatsKeys == {"total_events", "milestone_count", "date_range", "duration_days"}

\* the events of the timeline whose date parses as YYYY-MM-DD
Parseable == {i \in DOMAIN timeline_events : ~Unparseable(EventDate(i))}

\* days from 0001-01-01 to the date of event i, counted year by year
DaysToYear(y) == 365 * (y - 1) + Cardinality({k \in 1..(y - 1) : IsLeap(k)})

DayNumber(i) ==
    LET dt == strptime(EventDate(i).v) IN
    DaysToYear(dt[1])
        + Cardinality({<<m, d>> \in (1..12) \X (1..31) :
                        /\ d <= DaysInMonth(dt[1], m)
                        /\ m < dt[2] \/ (m = dt[2] /\ d <= dt[3])})

\* C21 as stated: get_timeline_stats returns, it does not raise, on every
\* timeline generate_timeline returns; the record has the event count, the
\* milestone count, the date range ("N/A" for the empty timeline) and
\* duration_days, the day difference between the latest and the earliest
\* parseable date, 0 when no date parses.
C21_StatsOnEveryTimeline ==
    /\ pc # "stats_raised"
    /\ pc = "stats" =>
        /\ DOMAIN stats = StatsKeys
        /\ stats["total_events"] = Len(timeline_events)
        /\ timeline_events = <<>> => stats["date_range"] = "N/A"
        /\ Parseable = {} => stats["duration_days"] = 0
        /\ \A i, j \in Parseable :
            (\A k \in Parseable : DayNumber(i) <= DayNumber(k) /\ DayNumber(k) <= DayNumber(j))
                => stats["duration_days"] = DayNumber(j) - DayNumber(i)

(***************************************************************************)
(* Further properties of generate_timeline and of the scorer.              *)
(***************************************************************************)
\* the collected entries with the date, in collection order
EntriesOf(date) == SelectSeq(collected, LAMBDA e : e["date"] = date)

LabelsOf(date) ==
    {Get(EntriesOf(date)[i], "source", "Unknown") : i \in DOMAIN EntriesOf(date)}

\* the texts of the first 3 entries with " | " between them
FirstThreeTexts(es) ==
    IF Len(es) = 2 THEN es[1]["event"].v \o " | " \o es[2]["event"].v
    ELSE es[1]["event"].v \o " | " \o es[2]["event"].v \o " | " \o es[3]["event"].v

\* the labels L, or 3 of them when there are more, each once, in some order
LabelLists(L) ==
    IF Cardinality(L) = 1 THEN L
    ELSE IF Cardinality(L) = 2
    THEN {a \o ", " \o b : <<a, b>> \in {p \in L \X L : p[1] # p[2]}}
    ELSE {p[1] \o ", " \o p[2] \o ", " \o p[3] :
            p \in {q \in L \X L \X L : q[1] # q[2] /\ q[1] # q[3] /\ q[2] # q[3]}}

\* C22: the merge step turns n >= 2 collected entries with the same date
\* into one event: its description is the event text of the first 3
\* entries in collection order joined by " | ", its source label is at most
\* 3 distinct source labels of the entries joined by ", ", and its
\* event_count is n.
C22_MergedEvent ==
    pc = "merged" =>
        \A c \in DOMAIN collected :
            LET date == collected[c]["date"]
                es == EntriesOf(date)
                at == {i \in DOMAIN timeline_events : EventDate(i) = date}
            IN  Len(es) >= 2 =>
                    /\ Cardinality(at) = 1
                    /\ \A i \in at :
                        /\ timeline_events[i]["event"] = Str(FirstThreeTexts(es))
                        /\ timeline_events[i]["source"] \in LabelLists(LabelsOf(date))
                        /\ timeline_events[i]["event_count"] = Len(es)

\* four entries with one date and four source labels
C22_Witness ==
    /\ pc = "merged"
    /\ \E c \in DOMAIN collected :
        /\ Len(EntriesOf(collected[c]["date"])) = 4
        /\ Cardinality(LabelsOf(collected[c]["date"])) = 4
    /\ Len(timeline_events) = 1

GenericWords == {"news", "times", "post", "tribune"}

\* C23 as stated: for each of news, times, post and tribune some source
\* name holds the word and gets from score_source the score 70 with
\* is_reputable false.  The names are those the scorer is run on; a name
\* that holds "times" holds the reputable entry "time".
C23_EachWordReaches70 ==
    pc = "scored" =>
        \A w \in GenericWords :
            \E name \in SourceNames :
                /\ Holds(name, w)
                /\ score_source(name).score = 70
                /\ ~score_source(name).is_reputable

\* C24: in a returned timeline an event with event_count greater than 1
\* has the source label "ai_analysis" and was merged from entries of the
\* analysis alone; an entry made from an article is the only collected
\* entry of its date.
C24_MergedFromAnalysisOnly ==
    pc = "done" =>
        /\ \A i \in DOMAIN timeline_events :
            ("event_count" \in DOMAIN timeline_events[i]
                /\ timeline_events[i]["event_count"] > 1) =>
                /\ timeline_events[i]["source"] = "ai_analysis"
                /\ \A c \in CollectedWith(EventDate(i)) :
                    collected[c]["source"] = "ai_analysis"
        /\ \A c \in DOMAIN collected :
            collected[c]["source"] # "ai_analysis" =>
                CollectedWith(collected[c]["date"]) = {c}

\* the analysis repeats a date that an article mentions too
C24_Witness ==
    /\ pc = "done"
    /\ \E i \in DOMAIN timeline_events :
        /\ "event_count" \in DOMAIN timeline_events[i]
        /\ timeline_events[i]["event_count"] = 2
        /\ IsStr(EventDate(i))
        /\ \E a \in DOMAIN articles : Mentions(a, EventDate(i).v)

\* the dates of the analysis entries that have both a date and an event
AnalysisDates ==
    {AnalysisEntries[n]["date"] :
        n \in {k \in DOMAIN AnalysisEntries :
                {"date", "event"} \subseteq DOMAIN AnalysisEntries[k]}}

\* C25: the dates of the events of a returned timeline are the dates of
\* the analysis entries that have both date and event together with the
\* dates of every extracted mention of every article, no more and no less.
C25_DatesKept ==
    pc = "done" =>
        {EventDate(i) : i \in DOMAIN timeline_events}
            = AnalysisDates \cup {Str(d) : d \in MentionedDates}

\* a date of the analysis that does not parse, a date only an article has
C25_Witness ==
    /\ pc = "done"
    /\ \E i \in DOMAIN timeline_events : Unparseable(EventDate(i))
    /\ \E d \in MentionedDates : Str(d) \notin AnalysisDates

\* C26: the overall_score of score_article lies in [21,96]; it is the
\* truncated weighted sum, less 20 for clickbait, so neither the floor at 0
\* nor the cap at 100 decides it; and a score below 40 goes with
\* is_clickbait.
C26_ReachableRange ==
    pc = "scored" =>
        /\ credibility.source_score \in {40, 55, 70, 88, 95}
        /\ credibility.overall_score \in 21..96
        /\ credibility.overall_score =
            (Tenths(credibility) \div 10) - (IF credibility.is_clickbait THEN 20 ELSE 0)
        /\ credibility.overall_score < 40 => credibility.is_clickbait

\* both ends of the range: a blog with every phrase and many marks, a top
\* outlet with a plain title
C26_Witness ==
    /\ pc = "scored"
    /\ \/ credibility.source_score = 40 /\ credibility.overall_score = 21
       \/ credibility.source_score = 95 /\ credibility.overall_score = 96

\* the phrases of the list that stand in the title, whatever their case
TitlePhrases == {p \in Phrases : Holds(Lower(subject.title), p)}

\* C27: is_clickbait is true exactly when at least two phrases of the list
\* stand in the title; marks alone (5) or one phrase with more than 3 marks
\* (15) do not flag the article; the bias score is one of 0, 5, ..., 55.
C27_ClickbaitIffTwoPhrases ==
    pc = "scored" =>
        /\ credibility.is_clickbait = (Cardinality(TitlePhrases) >= 2)
        /\ credibility.bias_score \in {5 * k : k \in 0..11}
        /\ credibility.bias_score \in {5, 15} => ~credibility.is_clickbait

\* one phrase and four marks: 15, not clickbait
C27_Witness ==
    /\ pc = "scored"
    /\ subject.title = "Amazing!!!!"
    /\ credibility.bias_score = 15
    /\ ~credibility.is_clickbait

====
